---- MODULE Spec2Model ----
(***************************************************************************)
(* Model of scrape.py: the club roster scraper.                            *)
(*                                                                         *)
(* The program is sequential (one browsing context, one coroutine), so the *)
(* model has one program counter, pc.  The web site is the environment: a  *)
(* finite set of listing pages 1..NPages with next-page links, a heading   *)
(* and roster rows, and the profile pages the rows link to.  Every fetch   *)
(* (page.goto) may succeed or fail; every write of the output file may     *)
(* succeed or fail.                                                        *)
(***************************************************************************)
EXTENDS Integers, Sequences, FiniteSets, TLC

\* ------------------------------------------------------------------ bounds
NPages == 4                  \* listing pages of the modelled site
MaxRows == 2                 \* rows of a table given to the extractor alone

\* ------------------------------------------------------- program constants
LoadAttempts == 3            \* load_page: stop_after_attempt(3)
ProfileAttempts == 3         \* scrape_profile_data: stop_after_attempt(3)
MaxRetries == 3              \* scrape_multiple_urls: max_retries = 3
MinCols == 12                \* extract_table_data: len(cols) < 12 -> skip
LastCol == 16                \* extract_table_data: highest index read, cols[16]

Sentinel == "Unknown"

Pages == 1..NPages

\* ------------------------------------------------ the site (environment)
\* A roster row as the extractor sees it:
\*   ncols  number of td cells of the row
\*   box    the nested name table: "none" (no table.inline-table), "full",
\*          "nohaupt" (no td.hauptlink), "noanchor" (td.hauptlink without a),
\*          "onetr" (a single tr, so no status row), "noimg" (no portrait)
\*   name   text of the name anchor
\*   href   the anchor's href: "absent" (no attribute), "", "#", or a path
\*   alt    alt text of the first flag image, "absent" when there is none
\*   goals  text of the goals cell ("" for a cell with no content)
Row(ncols, box, name, href, alt, goals) ==
    [ncols |-> ncols, box |-> box, name |-> name, href |-> href,
     alt |-> alt, goals |-> goals]

\* The markup of listing page p: heading ("absent": no h1), whether the
\* table.items and its tbody exist, and the rows of the tbody.  The heading
\* given here is the usual one; the site may show page 3 with a heading in
\* another letter case (Headings, HeadingsFolded below).
Listing(p) ==
    CASE p = 1 -> [heading |-> "FC Alpha", table |-> TRUE, tbody |-> TRUE,
                   rows |-> << Row(17, "full", "Ann", "/p1", "Spain", "2"),
                               Row(17, "onetr", "Bob", "#", "absent", "") >>]
      [] p = 2 -> [heading |-> "FC Beta", table |-> TRUE, tbody |-> TRUE,
                   rows |-> << Row(3, "none", "", "absent", "absent", ""),
                               Row(17, "noimg", "Cid", "/p2", "Atlantis", "0") >>]
      [] p = 3 -> [heading |-> "FC Alpha", table |-> TRUE, tbody |-> TRUE,
                   rows |-> << Row(17, "none", "", "absent", "Spain", "1"),
                               Row(17, "full", "Dan", "/p3", "Spain", "5") >>]
      [] p = 4 -> [heading |-> "absent", table |-> TRUE, tbody |-> TRUE,
                   rows |-> << Row(17, "full", "Eve", "/p1", "Spain", "3"),
                               Row(13, "full", "Fay", "/p2", "Spain", "4") >>]
      [] OTHER -> [heading |-> "FC Gamma", table |-> (p % 2 = 0), tbody |-> FALSE,
                   rows |-> << >>]

\* The markup of the profile page at a URL: for each labelled field
\* "found" with its text, "absent" (no label) or "unpaired" (label without
\* the value span that find_next looks for).
Origin == "https://tm"

ProfilePage(url) ==
    CASE url = Origin \o "/p1" ->
           [strong |-> "Ann A", full |-> "Ann Alba", pob |-> "Vigo",
            pos |-> "Goalkeeper", height |-> "1,80 m", shirt |-> "#1"]
      [] url = Origin \o "/p2" ->
           [strong |-> "absent", full |-> "absent", pob |-> "Baku",
            pos |-> "absent", height |-> "absent", shirt |-> "absent"]
      [] OTHER ->
           [strong |-> "Dan D", full |-> "absent", pob |-> "unpaired",
            pos |-> "Striker", height |-> "1,90 m", shirt |-> "#9"]

\* --------------------------------------------------------- pure functions
\* get_country_code: pycountry lookup, lower-cased alpha_2, "unknown" on
\* LookupError.
get_country_code(country_name) ==
    CASE country_name = "Spain" -> "es"
      [] country_name = "Germany" -> "de"
      [] OTHER -> "unknown"

\* urljoin(base_url, href) for the site's root-relative hrefs.
urljoin(base_url, href) == Origin \o href

RosterKeys ==
    {"name", "status", "profile_url", "image_url", "nation", "nation_code",
     "club", "date_of_birth", "appearances", "goals", "assists", "own_goals",
     "yellow_cards", "second_yellow", "red_cards", "sub_on", "sub_off",
     "minutes_played"}

ProfileKeys ==
    {"jersey_name", "full_name", "place_of_birth", "position", "height",
     "jersey_number"}

\* The keys save_to_csv reads from each player, one per output column.
CsvKeys == RosterKeys \cup ProfileKeys

\* club_name of a page (line 28).
ClubOf(html) ==
    IF html.heading = "absent" THEN Sentinel ELSE html.heading

\* Does building the record of this row raise?  td.hauptlink missing makes
\* .find('a') fail on None; fewer than 17 cells makes cols[16] (or an
\* earlier index) an IndexError.
RowQualifies(row) == row.ncols >= MinCols

RowRaises(row) ==
    \/ row.box = "nohaupt"
    \/ row.ncols <= LastCol

\* The record of one qualifying row (lines 45-84).
ExtractRow(row, base_url, club_name) ==
    LET hasAnchor == row.box \in {"full", "onetr", "noimg"}
        name == IF hasAnchor THEN row.name ELSE Sentinel
        status == IF row.box \in {"full", "noimg", "noanchor"}
                  THEN "on loan" ELSE Sentinel
        raw == IF hasAnchor /\ row.href # "absent" THEN row.href ELSE ""
        profile_url == IF raw # "" /\ raw # "#"
                       THEN urljoin(base_url, raw) ELSE Sentinel
        image_url == IF row.box \in {"full", "onetr", "noanchor"}
                     THEN "img.png" ELSE Sentinel
        nations == IF row.alt # "absent" THEN row.alt ELSE Sentinel
    IN  [k \in RosterKeys |->
           CASE k = "name" -> name
             [] k = "status" -> status
             [] k = "profile_url" -> profile_url
             [] k = "image_url" -> image_url
             [] k = "nation" -> nations
             [] k = "nation_code" -> get_country_code(nations)
             [] k = "club" -> club_name
             [] k = "date_of_birth" -> "Jan 1, 2000"
             [] k = "goals" -> row.goals
             [] OTHER -> "1"]

RECURSIVE ExtractRows(_, _, _)
ExtractRows(rows, base_url, club_name) ==
    IF rows = << >> THEN << >>
    ELSE LET row == Head(rows)
             rest == ExtractRows(Tail(rows), base_url, club_name)
         IN  IF RowQualifies(row)
             THEN << ExtractRow(row, base_url, club_name) >> \o rest
             ELSE rest

\* extract_table_data(html, base_url) for the markup html of a listing
\* page: does it raise, and what does it return otherwise.
ExtractRaises(html) ==
    /\ html.table
    /\ html.tbody
    /\ \E i \in 1..Len(html.rows) :
          RowQualifies(html.rows[i]) /\ RowRaises(html.rows[i])

extract_table_data(html, base_url) ==
    IF ~html.table \/ ~html.tbody THEN << >>
    ELSE ExtractRows(html.rows, base_url, ClubOf(html))

\* A default attribute set that lacks one key.
DefaultProfileShort == [k \in ProfileKeys \ {"jersey_number"} |-> Sentinel]

\* The attribute set the orchestrator and scrape_profile_data use for a
\* sentinel profile URL (lines 113 and 212).
DefaultProfile == [k \in ProfileKeys |-> Sentinel]

\* Parsing a profile page (lines 117-158): a label whose value span is
\* missing makes .get_text fail on None.
ProfileRaises(url) ==
    LET pg == ProfilePage(url)
    IN  "unpaired" \in {pg.full, pg.pob, pg.pos, pg.height}

Field(v) == IF v = "absent" THEN Sentinel ELSE v

ParseProfile(url) ==
    LET pg == ProfilePage(url)
    IN  [k \in ProfileKeys |->
           CASE k = "jersey_name" -> Field(pg.strong)
             [] k = "full_name" -> Field(pg.full)
             [] k = "place_of_birth" -> Field(pg.pob)
             [] k = "position" -> Field(pg.pos)
             [] k = "height" -> Field(pg.height)
             [] OTHER -> Field(pg.shirt)]

\* dict.update
Update(player, extra) ==
    [k \in DOMAIN player \cup DOMAIN extra |->
        IF k \in DOMAIN extra THEN extra[k] ELSE player[k]]

\* A backfill that fills in the empty string.
BackfillBlank(player) ==
    [k \in DOMAIN player \cup ProfileKeys |->
        IF k \in DOMAIN player THEN player[k] ELSE ""]

\* Lines 262-270: every missing enrichment key is set to the sentinel.
Backfill(player) ==
    [k \in DOMAIN player \cup ProfileKeys |->
        IF k \in DOMAIN player THEN player[k] ELSE Sentinel]

\* club_name.replace(' ', '_').lower() + "_players_data.csv" (line 222), on
\* the club names of the site.
FileName(club_name) ==
    CASE club_name = "FC Alpha" -> "fc_alpha_players_data.csv"
      [] club_name = "fc alpha" -> "fc_alpha_players_data.csv"
      [] club_name = "FC Beta" -> "fc_beta_players_data.csv"
      [] club_name = "FC Gamma" -> "fc_gamma_players_data.csv"
      [] OTHER -> "unknown_players_data.csv"

\* The 24 columns of the output file, in the order save_to_csv writes them
\* (lines 235-242); reading a key the player lacks is a KeyError.
CsvColumns ==
    << "name", "status", "profile_url", "image_url", "jersey_name",
       "jersey_number", "nation", "nation_code", "club", "place_of_birth",
       "full_name", "position", "height", "date_of_birth", "appearances",
       "goals", "assists", "own_goals", "yellow_cards", "second_yellow",
       "red_cards", "sub_on", "sub_off", "minutes_played" >>

CsvRow(player) == [c \in 1..Len(CsvColumns) |-> player[CsvColumns[c]]]

CsvRaises(players) ==
    \E i \in 1..Len(players) : ~(CsvKeys \subseteq DOMAIN players[i])

\* Definitions named Xyz<Variant> next to a definition Xyz are Xyz with a
\* slip in it; the properties below are re-checked with Xyz replaced by the
\* variant, to see that they depend on Xyz.

\* A stop condition that lets one attempt too many through.
LoadStopsLate(n) == n > LoadAttempts

\* tenacity's stop_after_attempt on load_page: stop once the attempt number
\* reaches the limit.
LoadStops(n) == n >= LoadAttempts

ProfileStopsLate(n) == n > ProfileAttempts

\* The same on scrape_profile_data.
ProfileStops(n) == n >= ProfileAttempts

\* Line 208: the orchestrator enriches only players with a real profile URL.
NeedsProfile(player) == player["profile_url"] # Sentinel

\* Line 111: scrape_profile_data returns the defaults for a sentinel URL.
ProfileSkipped(profile_url) == profile_url = "Unknown"

\* A membership test that looks at the newest URL only, and one that always
\* answers yes.
AlreadySeenLast(next_url, seen) == next_url = seen[Len(seen)]

AlreadySeenAlways(next_url, seen) == TRUE

\* A test that never finds the URL.
AlreadySeenNever(next_url, seen) == FALSE

\* Line 174: next_url in pagination_urls.
AlreadySeen(next_url, seen) == \E i \in 1..Len(seen) : seen[i] = next_url

\* An extend that puts the new records in front.
ExtendFront(all, players) == players \o all

\* Line 205: all_data.extend(players).
Extend(all, players) == all \o players

\* A test that needs two records.
HasDataTwo(players) == Len(players) > 1

\* Lines 260 and 286: the truth value of data.
HasData(players) == players # << >>

\* ------------------------------------------------------------------ state
VARIABLES
    nextLink,        \* site: next-page link of each listing page (0: no
                     \*   next control, -1: control without a usable link)
    usePagination,   \* use_pagination
    urls,            \* the input URL list
    heading,         \* site: the h1 text of each listing page
    html,            \* the extractor alone: the markup it is given
    extracted,       \* the extractor alone: what the call did
    pc,              \* position of the program
    ui,              \* index in urls of the URL being processed (0: none yet)
    attempt,         \* scrape_multiple_urls: attempt (0-based)
    data,            \* scrape_multiple_urls: data
    dataBound,       \* scrape_multiple_urls: 'data' in locals()
    files,           \* the dataset directory: file name -> written content
    all_data,        \* scrape_page: all_data
    urls_to_scrape,  \* scrape_page: urls_to_scrape
    li,              \* scrape_page: listing pages already handled
    pi,              \* scrape_page: players already handled
    pagination_urls, \* get_pagination_urls: pagination_urls
    current_url,     \* get_pagination_urls: current_url
    lpCaller,        \* load_page: who called ("walk", "list", "profile")
    lpOutcomes,      \* load_page: outcome of each fetch of the current call
    spAttempt,       \* scrape_profile_data: attempt number of its retry
    excFrom,         \* scrape_page: what raised into its except clause
    sink,            \* history: the latest save_to_csv call
    sinkCalled,      \* history: URL indices save_to_csv was called for
    gathered,        \* history: URL indices with a non-empty scrape result
    outcome,         \* history: per URL index, the club name and the result
                     \*   of its latest save_to_csv call
    runFail,         \* history: terminal fetch failure of the current run
    pfTotal,         \* history: fetches issued for the current profile
    pfOk,            \* history: successful fetches among them
    fetchedFor,      \* history: players a profile fetch was issued for
    walkLoaded,      \* history: URLs the current walk loaded successfully
    walkFailed       \* history: the current walk ended on a failed load

siteVars == << nextLink, usePagination, urls, heading >>
extractVars == << html, extracted >>
runnerVars == << ui, attempt, data, dataBound, files >>
orchVars == << all_data, urls_to_scrape, li, pi, excFrom >>
walkVars == << pagination_urls, current_url >>
loadVars == << lpCaller, lpOutcomes, spAttempt >>
histVars == << sink, sinkCalled, gathered, outcome, runFail, pfTotal, pfOk,
               fetchedFor, walkLoaded, walkFailed >>
vars == << siteVars, extractVars, pc, runnerVars, orchVars, walkVars,
          loadVars, histVars >>

NoSink == [ui |-> 0, data |-> << >>, ok |-> FALSE, path |-> "none"]

\* page.content() of listing page p.
Content(p) == [Listing(p) EXCEPT !.heading = heading[p]]

NoHtml == [heading |-> "absent", table |-> FALSE, tbody |-> FALSE,
           rows |-> << >>]

NotExtracted == [done |-> FALSE, raised |-> FALSE, records |-> << >>]

\* ------------------------------------------------------------------- Init
\* Link structures of the whole-program specification.
NoLinks == [p \in Pages |-> 0]
Short == [p \in Pages |-> IF p = 1 THEN 2 ELSE IF p = 3 THEN 1 ELSE 0]
Loops == [p \in Pages |-> IF p = 1 THEN 2 ELSE IF p = 2 THEN 1 ELSE p]
ToLast == [p \in Pages |-> IF p = 1 THEN NPages ELSE -1]

SiteLinks == {NoLinks, Short, Loops, ToLast}

InputLists == { << 3, 1 >>, << 1, 2 >> }

Headings == [p \in Pages |-> Listing(p).heading]
HeadingsFolded == [p \in Pages |-> IF p = 3 THEN "fc alpha" ELSE Headings[p]]

InitProgram ==
    /\ pc = "url_loop"
    /\ ui = 0
    /\ attempt = 0
    /\ data = << >>
    /\ dataBound = FALSE
    /\ files = << >>
    /\ all_data = << >>
    /\ urls_to_scrape = << >>
    /\ li = 0
    /\ pi = 0
    /\ pagination_urls = << >>
    /\ current_url = 0
    /\ lpCaller = "none"
    /\ lpOutcomes = << >>
    /\ spAttempt = 0
    /\ excFrom = "none"
    /\ sink = NoSink
    /\ sinkCalled = {}
    /\ gathered = {}
    /\ outcome = << >>
    /\ runFail = "none"
    /\ pfTotal = 0
    /\ pfOk = 0
    /\ fetchedFor = {}
    /\ walkLoaded = {}
    /\ walkFailed = FALSE
    /\ extracted = NotExtracted

Init ==
    /\ urls \in InputLists
    /\ heading \in {Headings, HeadingsFolded}
    /\ html = NoHtml
    /\ \/ usePagination = TRUE /\ nextLink \in SiteLinks
       \/ usePagination = FALSE /\ nextLink = NoLinks
    /\ InitProgram

\* ---------------------------------------------------------------- helpers
CurrentUrl == urls[ui]

\* Entering load_page (line 95) from a call site.
CallLoad(caller) ==
    /\ pc' = "load"
    /\ lpCaller' = caller
    /\ lpOutcomes' = << >>

\* load_page has returned or raised and its caller goes on without another
\* load: the call's frame is gone.
LoadDone ==
    /\ lpCaller' = "none"
    /\ lpOutcomes' = << >>

\* A write that opens the file for appending.
PutAppend(dir, name, content) ==
    [f \in DOMAIN dir \cup {name} |->
        IF f # name THEN dir[f]
        ELSE IF name \in DOMAIN dir
             THEN [owner |-> content.owner,
                   rows |-> dir[name].rows \o content.rows]
             ELSE content]

\* open(filepath, "w") and the rows written (lines 225-242).
Put(dir, name, content) ==
    [f \in DOMAIN dir \cup {name} |-> IF f = name THEN content ELSE dir[f]]

\* club_name = data[0]["club"] if "club" in data[0] else "unknown_club"
ClubName(players) ==
    IF "club" \in DOMAIN players[1] THEN players[1]["club"] ELSE "unknown_club"

\* save_to_csv(players, club_name) called on path `path`; it either writes
\* the file or raises (KeyError on a missing key, OSError from makedirs or
\* open) and leaves the directory as it was.
SaveToCsv(players, path, ok) ==
    /\ ok => ~CsvRaises(players)
    /\ sink' = [ui |-> ui, data |-> players, ok |-> ok, path |-> path]
    /\ sinkCalled' = sinkCalled \cup {ui}
    /\ outcome' = [i \in DOMAIN outcome \cup {ui} |->
                      IF i = ui
                      THEN [club |-> ClubName(players), saved |-> ok]
                      ELSE outcome[i]]
    /\ files' = IF ok
                THEN Put(files, FileName(ClubName(players)),
                         [owner |-> ui,
                          rows |-> [i \in 1..Len(players) |-> CsvRow(players[i])]])
                ELSE files

\* ---------------------------------------------------------- Batch Runner
\* for url in urls (line 254): take the next URL.
NextUrl ==
    /\ pc = "url_loop"
    /\ ui < Len(urls)
    /\ ui' = ui + 1
    /\ attempt' = 0
    /\ pc' = "attempt"
    /\ sink' = NoSink
    /\ runFail' = "none"
    /\ UNCHANGED << siteVars, extractVars, data, dataBound, files, orchVars,
                    walkVars, loadVars, sinkCalled, gathered, outcome,
                    pfTotal, pfOk, fetchedFor, walkLoaded, walkFailed >>

\* The URL list is exhausted: browser.close() (line 291).
Finish ==
    /\ pc = "url_loop"
    /\ ui = Len(urls)
    /\ pc' = "done"
    /\ UNCHANGED << siteVars, extractVars, runnerVars, orchVars, walkVars,
                    loadVars, histVars >>

\* Line 258 calls scrape_page, whose first statements (lines 194-199) set
\* all_data and either take the URL alone or enter get_pagination_urls
\* (lines 162-167), which starts with a load of the base URL.
StartAttempt ==
    /\ pc = "attempt"
    /\ attempt < MaxRetries
    /\ all_data' = << >>
    /\ li' = 0
    /\ pi' = 0
    /\ excFrom' = "none"
    /\ runFail' = "none"
    /\ sink' = NoSink
    /\ fetchedFor' = {}
    /\ walkLoaded' = {}
    /\ walkFailed' = FALSE
    /\ IF usePagination
       THEN /\ pagination_urls' = << CurrentUrl >>
            /\ current_url' = CurrentUrl
            /\ urls_to_scrape' = << CurrentUrl >>
            /\ CallLoad("walk")
       ELSE /\ urls_to_scrape' = << CurrentUrl >>
            /\ pc' = "list_loop"
            /\ UNCHANGED << walkVars, lpCaller, lpOutcomes >>
    /\ UNCHANGED << siteVars, extractVars, runnerVars, spAttempt, sinkCalled,
                    gathered, outcome, pfTotal, pfOk >>

\* ------------------------------------------------------------ Page Loader
\* One page.goto + page.content that succeeds (lines 98-101).
FetchOk ==
    /\ pc = "load"
    /\ lpOutcomes' = Append(lpOutcomes, "ok")
    /\ pc' = "loaded"
    /\ IF lpCaller = "profile"
       THEN /\ pfTotal' = pfTotal + 1
            /\ pfOk' = pfOk + 1
            /\ fetchedFor' = fetchedFor \cup {pi + 1}
       ELSE UNCHANGED << pfTotal, pfOk, fetchedFor >>
    /\ UNCHANGED << siteVars, extractVars, runnerVars, orchVars, walkVars,
                    lpCaller, spAttempt, sink, sinkCalled, gathered, outcome,
                    runFail, walkLoaded, walkFailed >>

\* One page.goto that raises; tenacity (lines 89-94) sleeps and retries, or
\* raises RetryError once stop_after_attempt is reached.
FetchFail ==
    /\ pc = "load"
    /\ lpOutcomes' = Append(lpOutcomes, "fail")
    /\ pc' = IF LoadStops(Len(lpOutcomes) + 1) THEN "load_failed" ELSE "load"
    /\ IF lpCaller = "profile"
       THEN /\ pfTotal' = pfTotal + 1
            /\ fetchedFor' = fetchedFor \cup {pi + 1}
       ELSE UNCHANGED << pfTotal, fetchedFor >>
    /\ UNCHANGED << siteVars, extractVars, runnerVars, orchVars, walkVars,
                    lpCaller, spAttempt, sink, sinkCalled, gathered, outcome,
                    runFail, pfOk, walkLoaded, walkFailed >>

\* ------------------------------------------------------ Pagination Walker
\* get_pagination_urls returns pagination_urls to line 199.
WalkReturn ==
    /\ urls_to_scrape' = pagination_urls'
    /\ pc' = "list_loop"
    /\ LoadDone

\* Lines 168-186: the page loaded; look for the next-page link.
WalkParse ==
    /\ pc = "loaded"
    /\ lpCaller = "walk"
    /\ walkLoaded' = walkLoaded \cup {current_url}
    /\ LET link == nextLink[current_url]
       IN  IF link >= 1 /\ ~AlreadySeen(link, pagination_urls)
           THEN /\ pagination_urls' = Append(pagination_urls, link)
                /\ current_url' = link
                /\ CallLoad("walk")
                /\ UNCHANGED urls_to_scrape
           ELSE /\ UNCHANGED walkVars
                /\ WalkReturn
    /\ UNCHANGED << siteVars, extractVars, runnerVars, all_data, li, pi,
                    excFrom, spAttempt, sink, sinkCalled, gathered, outcome,
                    runFail, pfTotal, pfOk, fetchedFor, walkFailed >>

\* A walker without its try/except: the failed load leaves
\* get_pagination_urls as an exception, into the handler of scrape_page.
WalkErrorPropagates ==
    /\ pc = "load_failed"
    /\ lpCaller = "walk"
    /\ walkFailed' = TRUE
    /\ excFrom' = "listing"
    /\ pc' = "sp_except"
    /\ LoadDone
    /\ UNCHANGED << siteVars, extractVars, runnerVars, all_data,
                    urls_to_scrape, li, pi, walkVars, spAttempt, sink,
                    sinkCalled, gathered, outcome, runFail, pfTotal, pfOk,
                    fetchedFor, walkLoaded >>

\* Lines 187-190: a load failed after its retries; the walker logs it and
\* returns what it has.
WalkError ==
    /\ pc = "load_failed"
    /\ lpCaller = "walk"
    /\ walkFailed' = TRUE
    /\ UNCHANGED walkVars
    /\ WalkReturn
    /\ UNCHANGED << siteVars, extractVars, runnerVars, all_data, li, pi,
                    excFrom, spAttempt, sink, sinkCalled, gathered, outcome,
                    runFail, pfTotal, pfOk, fetchedFor, walkLoaded >>

\* ------------------------------------------------ Club Scrape Orchestrator
\* for page_url in urls_to_scrape (lines 201-202): load the next listing
\* page, or go on to the players (line 207).
ListNext ==
    /\ pc = "list_loop"
    /\ IF li < Len(urls_to_scrape)
       THEN CallLoad("list")
       ELSE /\ pc' = "prof_loop"
            /\ UNCHANGED << lpCaller, lpOutcomes >>
    /\ walkLoaded' = {}
    /\ walkFailed' = FALSE
    /\ UNCHANGED << siteVars, extractVars, runnerVars, orchVars, walkVars,
                    spAttempt, sink, sinkCalled, gathered, outcome, runFail,
                    pfTotal, pfOk, fetchedFor >>

\* Lines 203-205: extract the rows of the loaded page; an exception of the
\* extractor lands in the except clause of scrape_page.
ListParse ==
    /\ pc = "loaded"
    /\ lpCaller = "list"
    /\ LET page_url == urls_to_scrape[li + 1]
       IN  IF ExtractRaises(Content(page_url))
           THEN /\ excFrom' = "extract"
                /\ pc' = "sp_except"
                /\ UNCHANGED << all_data, li >>
           ELSE /\ all_data' = Extend(all_data,
                                     extract_table_data(Content(page_url),
                                                        page_url))
                /\ li' = li + 1
                /\ pc' = "list_loop"
                /\ UNCHANGED excFrom
    /\ LoadDone
    /\ UNCHANGED << siteVars, extractVars, runnerVars, urls_to_scrape, pi,
                    walkVars, spAttempt, histVars >>

\* load_page of a listing page raised RetryError.
ListError ==
    /\ pc = "load_failed"
    /\ lpCaller = "list"
    /\ excFrom' = "listing"
    /\ runFail' = "listing"
    /\ pc' = "sp_except"
    /\ LoadDone
    /\ UNCHANGED << siteVars, extractVars, runnerVars, all_data,
                    urls_to_scrape, li, pi, walkVars, spAttempt, sink,
                    sinkCalled, gathered, outcome, pfTotal, pfOk, fetchedFor,
                    walkLoaded, walkFailed >>

\* for player in all_data (lines 207-212), and the entry of
\* scrape_profile_data (lines 111-116); after the last player scrape_page
\* returns all_data (line 217).
ProfNext ==
    /\ pc = "prof_loop"
    /\ IF pi < Len(all_data)
       THEN LET player == all_data[pi + 1]
            IN  IF NeedsProfile(player)
                   /\ ~ProfileSkipped(player["profile_url"])
                THEN /\ spAttempt' = 1
                     /\ pfTotal' = 0
                     /\ pfOk' = 0
                     /\ CallLoad("profile")
                     /\ UNCHANGED << all_data, pi >>
                ELSE /\ all_data' = [all_data EXCEPT
                                       ![pi + 1] = Update(@, DefaultProfile)]
                     /\ pi' = pi + 1
                     /\ UNCHANGED << pc, loadVars, pfTotal, pfOk >>
       ELSE /\ pc' = "returned"
            /\ UNCHANGED << all_data, pi, loadVars, pfTotal, pfOk >>
    /\ UNCHANGED << siteVars, extractVars, runnerVars, urls_to_scrape, li,
                    excFrom, walkVars, sink, sinkCalled, gathered, outcome,
                    runFail, fetchedFor, walkLoaded, walkFailed >>

\* tenacity around scrape_profile_data (lines 103-108): the attempt raised;
\* call the function again, or raise RetryError into scrape_page.
ProfileRetry(why) ==
    IF ProfileStops(spAttempt)
    THEN /\ excFrom' = why
         /\ runFail' = IF why = "profile_fetch" THEN "profile" ELSE runFail
         /\ pc' = "sp_except"
         /\ LoadDone
         /\ UNCHANGED spAttempt
    ELSE /\ spAttempt' = spAttempt + 1
         /\ CallLoad("profile")
         /\ UNCHANGED << excFrom, runFail >>

\* Lines 117-158 and 210: parse the loaded profile and merge it.
ProfParse ==
    /\ pc = "loaded"
    /\ lpCaller = "profile"
    /\ LET profile_url == all_data[pi + 1]["profile_url"]
       IN  IF ProfileRaises(profile_url)
           THEN /\ ProfileRetry("profile_parse")
                /\ UNCHANGED << all_data, pi, pfTotal, pfOk >>
           ELSE /\ all_data' = [all_data EXCEPT
                                  ![pi + 1] = Update(@, ParseProfile(profile_url))]
                /\ pi' = pi + 1
                /\ pc' = "prof_loop"
                /\ LoadDone
                /\ spAttempt' = 0
                /\ pfTotal' = 0
                /\ pfOk' = 0
                /\ UNCHANGED << excFrom, runFail >>
    /\ UNCHANGED << siteVars, extractVars, runnerVars, urls_to_scrape, li,
                    walkVars, sink, sinkCalled, gathered, outcome, fetchedFor,
                    walkLoaded, walkFailed >>

\* load_page of a profile page raised RetryError inside scrape_profile_data.
ProfError ==
    /\ pc = "load_failed"
    /\ lpCaller = "profile"
    /\ ProfileRetry("profile_fetch")
    /\ UNCHANGED << siteVars, extractVars, runnerVars, all_data,
                    urls_to_scrape, li, pi, walkVars, sink, sinkCalled,
                    gathered, outcome, pfTotal, pfOk, fetchedFor, walkLoaded,
                    walkFailed >>

\* A scrape_page that lets the exception through to the retry loop of the
\* runner, whose data is then not assigned by this attempt.
ScrapeExceptRaises ==
    /\ pc = "sp_except"
    /\ pc' = "except"
    /\ UNCHANGED << siteVars, extractVars, runnerVars, orchVars, walkVars,
                    loadVars, histVars >>

\* Lines 214-217: scrape_page catches every exception, logs it and returns
\* all_data.
ScrapeExcept ==
    /\ pc = "sp_except"
    /\ pc' = "returned"
    /\ UNCHANGED << siteVars, extractVars, runnerVars, orchVars, walkVars,
                    loadVars, histVars >>

\* ------------------------------------------------- Batch Runner, continued
\* Lines 258-276: data = the result of scrape_page; a non-empty result is
\* backfilled and saved, then break.  save_to_csv raising leads to the
\* except clause of line 278.
RunnerReceive ==
    /\ pc = "returned"
    /\ dataBound' = TRUE
    /\ all_data' = << >>
    /\ urls_to_scrape' = << >>
    /\ li' = 0
    /\ pi' = 0
    /\ excFrom' = "none"
    /\ pagination_urls' = << >>
    /\ current_url' = 0
    /\ spAttempt' = 0
    /\ pfTotal' = 0
    /\ pfOk' = 0
    /\ fetchedFor' = {}
    /\ gathered' = IF Len(all_data) > 0 THEN gathered \cup {ui} ELSE gathered
    /\ IF HasData(all_data)
       THEN LET filled == [i \in 1..Len(all_data) |-> Backfill(all_data[i])]
            IN  /\ data' = filled
                /\ \E ok \in BOOLEAN :
                      /\ SaveToCsv(filled, "try", ok)
                      /\ pc' = IF ok THEN "url_loop" ELSE "except"
       ELSE /\ data' = all_data
            /\ pc' = "url_loop"
            /\ UNCHANGED << files, sink, sinkCalled, outcome >>
    /\ UNCHANGED << siteVars, extractVars, ui, attempt, lpCaller, lpOutcomes,
                    runFail, walkLoaded, walkFailed >>

\* Lines 278-289: the except clause of the retry loop.
RunnerExcept ==
    /\ pc = "except"
    /\ IF attempt < MaxRetries - 1
       THEN /\ attempt' = attempt + 1
            /\ pc' = "attempt"
            /\ UNCHANGED << files, sink, sinkCalled, outcome >>
       ELSE IF dataBound /\ HasData(data)
            THEN /\ \E ok \in BOOLEAN :
                      /\ SaveToCsv(data, "except", ok)
                      /\ pc' = IF ok THEN "url_loop" ELSE "aborted"
                 /\ UNCHANGED attempt
            ELSE /\ pc' = "url_loop"
                 /\ UNCHANGED << attempt, files, sink, sinkCalled, outcome >>
    /\ UNCHANGED << siteVars, extractVars, ui, data, dataBound, orchVars,
                    walkVars, loadVars, gathered, runFail, pfTotal, pfOk,
                    fetchedFor, walkLoaded, walkFailed >>

\* ---------------------------------------------------------- specification
Next ==
    \/ NextUrl
    \/ Finish
    \/ StartAttempt
    \/ FetchOk
    \/ FetchFail
    \/ WalkParse
    \/ WalkError
    \/ ListNext
    \/ ListParse
    \/ ListError
    \/ ProfNext
    \/ ProfParse
    \/ ProfError
    \/ ScrapeExcept
    \/ RunnerReceive
    \/ RunnerExcept

Spec == Init /\ [][Next]_vars

\* The Pagination Walker on its own: one call of get_pagination_urls from
\* page 1 of a site with an arbitrary next-page link on every page.
InitWalk ==
    /\ urls = << 1 >>
    /\ usePagination = TRUE
    /\ nextLink \in [Pages -> -1..NPages]
    /\ heading = Headings
    /\ html = NoHtml
    /\ InitProgram

NextWalk ==
    \/ NextUrl
    \/ StartAttempt
    \/ FetchOk
    \/ FetchFail
    \/ WalkParse
    \/ WalkError

SpecWalk == InitWalk /\ [][NextWalk]_vars

\* The same with the program running on: the coroutine is the only thing
\* scheduled, every await of it completes (page.goto returns or raises
\* within its timeout, wait_fixed sleeps 2 s), so a step that can be taken
\* is taken.
SpecWalkFair == SpecWalk /\ WF_vars(NextWalk)

\* The Roster Extractor on its own: one call of extract_table_data on the
\* markup of a listing page whose roster table has up to MaxRows rows of any
\* shape: below, at and above the cell counts the code tests and reads, and
\* with every variant of the nested name table.
ColCounts == {MinCols - 1, MinCols, LastCol, LastCol + 1}

Boxes == {"none", "full", "nohaupt", "noanchor", "onetr", "noimg"}

RowShapes ==
    {Row(n, b, "Ann", "/p1", "Spain", "2") : n \in ColCounts, b \in Boxes}
        \cup {Row(LastCol + 1, "full", "Bob", h, "absent", "") :
                 h \in {"absent", "", "#"}}

Markups ==
    {[heading |-> h, table |-> t, tbody |-> b, rows |-> r] :
        h \in {"absent", "FC Alpha"}, t \in BOOLEAN, b \in BOOLEAN,
        r \in UNION {[1..n -> RowShapes] : n \in 0..MaxRows}}

InitExtract ==
    /\ html \in Markups
    /\ urls = << 1 >>
    /\ usePagination = FALSE
    /\ nextLink = NoLinks
    /\ heading = Headings
    /\ InitProgram

\* players = extract_table_data(html, page_url) (line 204).
Extract ==
    /\ ~extracted.done
    /\ extracted' =
          IF ExtractRaises(html)
          THEN [done |-> TRUE, raised |-> TRUE, records |-> << >>]
          ELSE [done |-> TRUE, raised |-> FALSE,
                records |-> extract_table_data(html, urls[1])]
    /\ UNCHANGED << siteVars, html, pc, runnerVars, orchVars, walkVars,
                    loadVars, histVars >>

NextExtract == Extract

SpecExtract == InitExtract /\ [][NextExtract]_vars

\* ================================================================ claims
AllFail(outcomes) == \A i \in 1..Len(outcomes) : outcomes[i] = "fail"

\* C1: a load_page call whose fetch fails every time makes exactly 3 fetch
\* attempts and then raises; a call whose fetch succeeds on attempt k <= 3
\* makes exactly k attempts (k - 1 failures, then the success) and returns.
C1_LoadPageAttempts ==
    /\ pc = "load_failed" => Len(lpOutcomes) = 3 /\ AllFail(lpOutcomes)
    /\ pc = "loaded" =>
          /\ Len(lpOutcomes) \in 1..3
          /\ lpOutcomes[Len(lpOutcomes)] = "ok"
          /\ AllFail(SubSeq(lpOutcomes, 1, Len(lpOutcomes) - 1))
    /\ pc = "load" => Len(lpOutcomes) < 3 /\ AllFail(lpOutcomes)

C1_Witness ==
    /\ pc = "load_failed"
    /\ lpOutcomes = << "fail", "fail", "fail" >>

\* C2 as stated: a profile page whose fetch always fails is fetched at most
\* 3 times during one orchestrator run.
C2_ProfileFetchedAtMostThrice == pfOk = 0 => pfTotal <= 3

\* C2 amended: scrape_profile_data retries its own load_page call, so a
\* profile page is fetched at most 9 times (3 calls of load_page with 3
\* fetches each) during one orchestrator run, and exactly 9 times when every
\* fetch fails and the failure reaches the orchestrator; one load_page call
\* never makes more than 3 fetches.
C2_ProfileFetchedNineTimes ==
    /\ pfTotal <= 9
    /\ Len(lpOutcomes) <= 3
    /\ (pc = "sp_except" /\ excFrom = "profile_fetch" /\ pfOk = 0)
          => pfTotal = 9

C2_Witness ==
    /\ pc = "sp_except"
    /\ excFrom = "profile_fetch"
    /\ pfOk = 0
    /\ pfTotal = 9

\* C3: when a listing or profile fetch has exhausted its retries, the
\* orchestrator does not return normally to the Batch Runner (it fails, and
\* hands back no records).
C3_FailurePropagates == pc = "returned" => runFail = "none"

\* C4: the Batch Runner leaves a URL whose latest orchestrator attempt
\* suffered an exhausted fetch failure only after max_retries attempts.
C4_ReattemptsAfterFetchFailure ==
    (pc = "url_loop" /\ ui >= 1 /\ runFail # "none")
        => attempt = MaxRetries - 1

\* C5: no error of one URL aborts the batch: when the program has stopped,
\* every URL of the input list has been started.
C5_EveryUrlStarted == pc \in {"done", "aborted"} => ui = Len(urls)

C7_NoEmptyField ==
    \A i \in 1..Len(sink.data) :
        /\ CsvKeys \subseteq DOMAIN sink.data[i]
        /\ \A k \in CsvKeys : sink.data[i][k] # ""

\* C8: for a record whose profile_url is "Unknown" no profile fetch is ever
\* issued, and once the orchestrator has handled it (and when it is handed
\* to save_to_csv) its six profile fields are all "Unknown".
AllProfileUnknown(player) ==
    \A k \in ProfileKeys : k \in DOMAIN player /\ player[k] = "Unknown"

C8_SentinelProfile ==
    /\ \A i \in 1..Len(all_data) :
          all_data[i]["profile_url"] = "Unknown" =>
              /\ i \notin fetchedFor
              /\ i <= pi => AllProfileUnknown(all_data[i])
    /\ \A i \in 1..Len(sink.data) :
          sink.data[i]["profile_url"] = "Unknown" =>
              AllProfileUnknown(sink.data[i])

C8_Witness ==
    /\ pi = 2
    /\ Len(all_data) >= 2
    /\ all_data[2]["profile_url"] = "Unknown"
    /\ all_data[2]["jersey_name"] = "Unknown"
    /\ fetchedFor = {1}

\* C9: throughout a walk the accumulated sequence starts with the input URL
\* and holds no URL twice, and no load is started for a URL the walk has
\* already loaded.
NoDuplicates(seq) ==
    \A i, j \in 1..Len(seq) : i # j => seq[i] # seq[j]

C9_WalkerNeverRevisits ==
    pagination_urls # << >> =>
        /\ pagination_urls[1] = urls[ui]
        /\ NoDuplicates(pagination_urls)
        /\ (pc = "load" /\ lpCaller = "walk") => current_url \notin walkLoaded

C9_Witness ==
    /\ pc = "list_loop"
    /\ urls_to_scrape = << 1, 2, 3 >>
    /\ nextLink[3] = 1
    /\ walkLoaded = {1, 2, 3}

\* C10: on a linear chain (every page links to the next, the last has no
\* next-page control) and without a failed load, the walker returns exactly
\* the pages of the chain in chain order.
RECURSIVE FollowLinks(_, _)
FollowLinks(p, fuel) ==
    IF nextLink[p] >= 1 /\ fuel > 0
    THEN << p >> \o FollowLinks(nextLink[p], fuel - 1)
    ELSE << p >>

IsLinearChain(p) ==
    LET chain == FollowLinks(p, NPages)
    IN  nextLink[chain[Len(chain)]] = 0

C10_WalkerFollowsChain ==
    (pc = "list_loop" /\ usePagination /\ ~walkFailed /\ li = 0
        /\ IsLinearChain(urls[ui]))
        => urls_to_scrape = FollowLinks(urls[ui], NPages)

C10_Witness ==
    /\ pc = "list_loop"
    /\ ~walkFailed
    /\ nextLink[1] = 2 /\ nextLink[2] = 3 /\ nextLink[3] = 0
    /\ urls_to_scrape = << 1, 2, 3 >>

\* C11: on every site (any next-page link on any page, links back to the
\* first page or to the page itself included) the walker terminates: the
\* sequence never grows beyond the pages of the site, the walk returns to
\* its caller, and when no load fails it returns the pages met by following
\* the links from the input URL up to the first link that is missing or
\* whose target is already in the sequence.
RECURSIVE WalkFrom(_, _)
WalkFrom(p, seen) ==
    LET link == nextLink[p]
    IN  IF link >= 1 /\ link \notin seen
        THEN << p >> \o WalkFrom(link, seen \cup {link})
        ELSE << p >>

C11_WalkStopsAtRepeat ==
    /\ Len(pagination_urls) <= NPages
    /\ (pc = "list_loop" /\ ~walkFailed) =>
           urls_to_scrape = WalkFrom(urls[ui], {urls[ui]})

C11_WalkerTerminates ==
    /\ [](C11_WalkStopsAtRepeat)
    /\ <>(pc = "list_loop")

C11_Witness ==
    /\ pc = "list_loop"
    /\ ~walkFailed
    /\ nextLink[1] = 2 /\ nextLink[2] = 2
    /\ urls_to_scrape = << 1, 2 >>
    /\ walkLoaded = {1, 2}

\* C12: when a load fails for good during pagination discovery, the walker
\* returns normally: control is at the orchestrator's page loop with no
\* exception pending, and the sequence handed over is the one collected so
\* far: it starts with the input URL, every URL but the last was loaded and
\* links to its successor, and the last is the URL whose load failed.
C12_WalkerSurvivesFailedLoad ==
    walkFailed =>
        /\ pc = "list_loop"
        /\ li = 0
        /\ excFrom = "none"
        /\ runFail = "none"
        /\ urls_to_scrape = pagination_urls
        /\ urls_to_scrape[1] = urls[ui]
        /\ urls_to_scrape[Len(urls_to_scrape)] = current_url
        /\ current_url \notin walkLoaded
        /\ \A i \in 1..(Len(urls_to_scrape) - 1) :
              /\ urls_to_scrape[i] \in walkLoaded
              /\ nextLink[urls_to_scrape[i]] = urls_to_scrape[i + 1]

C12_Witness ==
    /\ walkFailed
    /\ pc = "list_loop"
    /\ urls_to_scrape = << 1, 2 >>
    /\ walkLoaded = {1}
    /\ lpCaller = "none"

\* C13: for a listing page with a roster table the extractor returns one
\* record for every row with at least 12 cells and none for the other rows,
\* in row order; a row with 12 to 16 cells yields a record like any other.
ManyCells(row) == row.ncols >= 12

C13_OneRecordPerQualifyingRow ==
    (extracted.done /\ html.table /\ html.tbody) =>
        LET rows == SelectSeq(html.rows, ManyCells)
        IN  /\ ~extracted.raised
            /\ Len(extracted.records) = Len(rows)
            /\ \A i \in 1..Len(rows) :
                  extracted.records[i] =
                      ExtractRow(rows[i], urls[1], ClubOf(html))

\* C14: the extractor does not end in an error because of a missing piece
\* of the name sub-table (rows too short for the columns read are left
\* aside here): every row with the 17 cells yields a record, with "Unknown"
\* in the name, status, profile_url and image_url of a row without the
\* sub-table, and "Unknown" as the name of a row without the name cell.
FullWidth(row) == row.ncols > 16

C14_MissingStructureGivesSentinel ==
    (extracted.done /\ html.table /\ html.tbody
        /\ \A i \in 1..Len(html.rows) :
              ManyCells(html.rows[i]) => FullWidth(html.rows[i])) =>
        LET rows == SelectSeq(html.rows, FullWidth)
        IN  /\ ~extracted.raised
            /\ Len(extracted.records) = Len(rows)
            /\ \A i \in 1..Len(rows) :
                  /\ rows[i].box = "none" =>
                        \A k \in {"name", "status", "profile_url", "image_url"} :
                            extracted.records[i][k] = "Unknown"
                  /\ rows[i].box = "nohaupt" =>
                        extracted.records[i]["name"] = "Unknown"

\* C15: within one input URL the orchestrator loads the listing pages in
\* the order of the pagination chain (the records held after li pages are
\* those of the first li URLs of the chain, page after page and row after
\* row, and no profile is fetched before the last listing page); profiles
\* are handled in record order (exactly the first pi records are enriched,
\* and only records up to the next one have had a fetch); and the records
\* handed to save_to_csv are those of a prefix of the chain in
\* page-then-row order.
Chain(u) == IF usePagination THEN WalkFrom(u, {u}) ELSE << u >>

IsPrefix(s, t) == Len(s) <= Len(t) /\ s = SubSeq(t, 1, Len(s))

RosterPart(players) ==
    [i \in 1..Len(players) |-> [k \in RosterKeys |-> players[i][k]]]

RECURSIVE PageRecords(_)
PageRecords(pages) ==
    IF pages = << >> THEN << >>
    ELSE extract_table_data(Content(Head(pages)), Head(pages))
            \o PageRecords(Tail(pages))

C15_PageThenRowOrder ==
    /\ urls_to_scrape # << >> =>
          /\ IsPrefix(urls_to_scrape, Chain(urls[ui]))
          /\ li <= Len(urls_to_scrape)
          /\ RosterPart(all_data) = PageRecords(SubSeq(urls_to_scrape, 1, li))
          /\ lpCaller = "list" => li < Len(urls_to_scrape) /\ fetchedFor = {}
          /\ lpCaller = "profile" => li = Len(urls_to_scrape)
          /\ fetchedFor \subseteq 1..(pi + 1)
          /\ \A i \in 1..Len(all_data) :
                (ProfileKeys \subseteq DOMAIN all_data[i]) <=> (i <= pi)
    /\ sink.path # "none" =>
          \E n \in 0..Len(Chain(urls[sink.ui])) :
              RosterPart(sink.data) =
                  PageRecords(SubSeq(Chain(urls[sink.ui]), 1, n))

C15_Witness ==
    /\ sink.ok
    /\ urls[sink.ui] = 1
    /\ nextLink[1] = 2
    /\ Len(sink.data) = 3
    /\ sink.data[1]["name"] = "Ann"
    /\ sink.data[1]["jersey_name"] = "Ann A"
    /\ sink.data[2]["name"] = "Bob"
    /\ sink.data[3]["name"] = "Cid"
    /\ sink.data[3]["place_of_birth"] = "Baku"

\* C16: every record of a dataset handed to save_to_csv for one input URL
\* carries the club name read from that URL's first listing page, and the
\* file written for it is named after that same value.
C16_OneClubPerDataset ==
    sink.path # "none" =>
        LET club == ClubOf(Content(urls[sink.ui]))
        IN  /\ \A i \in 1..Len(sink.data) : sink.data[i]["club"] = club
            /\ sink.ok =>
                  /\ FileName(club) \in DOMAIN files
                  /\ files[FileName(club)].owner = sink.ui

\* C17 as stated, for batches in which every URL with records had them
\* written: when two input URLs yield records with the same first-record
\* club name the file of that name holds the records of the later URL; and
\* the number of output files equals the number of distinct first-record
\* club names.
Saved == {i \in DOMAIN outcome : outcome[i].saved}

OutputName(i) == FileName(outcome[i].club)

RECURSIVE Range(_)
Range(seq) == IF seq = << >> THEN {} ELSE {Head(seq)} \cup Range(Tail(seq))

RowsOf(u) == Range(RosterPart(PageRecords(Chain(u))))

C18_NoStaleRecords ==
    /\ sink.path # "none" =>
          /\ sink.ui = ui
          /\ dataBound
          /\ sink.data = data
          /\ Range(RosterPart(sink.data)) \subseteq RowsOf(urls[ui])
    /\ pc = "except" => sink.path = "try" /\ ~sink.ok
    /\ sink.path = "except" => attempt = MaxRetries - 1

C18_Witness ==
    /\ urls = << 1, 2 >>
    /\ 1 \in Saved
    /\ sink.ui = 2
    /\ sink.path = "except"
    /\ sink.ok
    /\ Len(sink.data) = 1
    /\ sink.data[1]["name"] = "Cid"
    /\ files["fc_beta_players_data.csv"].owner = 2

\* C19: when a fetch has failed for good in the middle of an orchestrator
\* run that had gathered records, the dataset the runner then hands to
\* save_to_csv is made of exactly the records of the listing pages loaded
\* before the failure.  After a failed listing page no profile fetch was
\* issued and every record has its six profile fields "Unknown"; after a
\* failed profile of record k the records before k keep their profile
\* values (the parsed ones, or "Unknown" for a record without profile URL)
\* and record k and all later ones have the six fields "Unknown".
ProfilePart(player) == [k \in ProfileKeys |-> player[k]]

ExpectedProfile(player) ==
    IF player["profile_url"] = "Unknown"
    THEN [k \in ProfileKeys |-> "Unknown"]
    ELSE ParseProfile(player["profile_url"])

C19_WrittenAfterFailure ==
    LET written == sink'.data
        k == pi + 1
    IN  /\ sink'.path = "try"
        /\ sink'.ui = ui
        /\ Len(written) = Len(all_data)
        /\ RosterPart(written) = PageRecords(SubSeq(urls_to_scrape, 1, li))
        /\ runFail = "listing" =>
              /\ li < Len(urls_to_scrape)
              /\ fetchedFor = {}
              /\ \A i \in 1..Len(written) : AllProfileUnknown(written[i])
        /\ runFail = "profile" =>
              /\ li = Len(urls_to_scrape)
              /\ k \in 1..Len(written)
              /\ \A i \in 1..(k - 1) :
                    ProfilePart(written[i]) = ExpectedProfile(written[i])
              /\ \A i \in k..Len(written) : AllProfileUnknown(written[i])

C19_PartialDatasetShape ==
    [][(pc = "returned" /\ runFail # "none" /\ all_data # << >>)
          => C19_WrittenAfterFailure]_vars

C19_Witness ==
    /\ runFail = "profile"
    /\ sink.path = "try"
    /\ sink.ok
    /\ Len(sink.data) = 3
    /\ sink.data[1]["jersey_name"] = "Ann A"
    /\ sink.data[2]["jersey_name"] = "Unknown"
    /\ sink.data[3]["name"] = "Cid"
    /\ sink.data[3]["place_of_birth"] = "Unknown"

====
